---- MODULE Spec2Model ----
(***************************************************************************)
(* Model of src/ui.py: a Streamlit script that conducts a ten-question     *)
(* interview and asks an external language model for a report.            *)
(*                                                                         *)
(* Streamlit executes the whole script once per "pass": on page load, on   *)
(* every widget interaction, and after every st.rerun().  The session      *)
(* state (st.session_state) lives across passes.  A pass is one step of    *)
(* the model from its start to the point where it ends, except the pass    *)
(* that generates the report: it waits in llm.invoke (a blocking network   *)
(* request), so it is one step up to the call and one step from the end of *)
(* the call.  A pass ends at the end of the script, at st.rerun() (which   *)
(* schedules a new pass), or at a yield point (an st.* element call or an  *)
(* access of st.session_state) where Streamlit ends it because a request   *)
(* to run the script again or to stop has arrived; the writes the pass has *)
(* made by then stay.  The one-shot widget values (chat_input text, button *)
(* click) of a pass are consumed and are not seen again.                   *)
(*                                                                         *)
(* Strings are TLA+ strings; Len, \o and SubSeq act on their characters.   *)
(* A text with characters that a string of the model cannot hold (U+2000   *)
(* and above) is the tuple of its pieces, in order: strings, and for each  *)
(* such character its code point.                                          *)
(***************************************************************************)
EXTENDS Integers, Sequences, FiniteSets, TLC

VARIABLES
    answers,             \* st.session_state.graph_state["answers"]
    chat_history,        \* st.session_state.chat_history
    interview_started,   \* st.session_state.interview_started
    interview_complete,  \* st.session_state.interview_complete
    report_generated,    \* st.session_state.report_generated
    rerun_pending,       \* a pass is scheduled (page load or st.rerun())
    objects,             \* the dict and the list st.session_state refers to
    invoking,            \* the number of calls waiting in llm.invoke (line 118)
    input_shown,         \* the chat_input widget is on the page
    button_shown,        \* the "Start New Interview" button is on the page
    llm_log,             \* prompts sent to llm.invoke since the last reset
    submitted,           \* non-empty texts accepted since the last reset
    last_pass,           \* inputs, branch and starting point of the latest pass
    stops,               \* passes ended at a yield point so far
    peer                 \* all of the above for a second browser session

vars == <<answers, chat_history, interview_started, interview_complete,
          report_generated, objects, rerun_pending, invoking, input_shown,
          button_shown, llm_log, submitted, last_pass, stops, peer>>

(***************************************************************************)
(* The fixed question list.                                                *)
(***************************************************************************)
questions ==
    << "What is your name?",
       "What is your professional background?",
       "What are your technical skills?",
       "What are your strengths?",
       "What are your weaknesses?",
       "Describe a challenging project you completed.",
       "What are your career goals?",
       "How do you handle stress?",
       "How do you work in a team?",
       "Why should we hire you?" >>

total_questions == Len(questions)

(***************************************************************************)
(* String helpers: the Python str operations the script uses.              *)
(***************************************************************************)
Char(s, i) == SubSeq(s, i, i)

\* The characters str.strip() removes (those for which str.isspace() is
\* true): space, \t, \n, \r, \f, then U+000B, U+001C, U+001D, U+001E,
\* U+001F, U+0085, U+00A0 and U+1680, written as the characters themselves.
\* The remaining ones (U+2000..U+200A, U+2028, U+2029, U+202F, U+205F,
\* U+3000) cannot occur in a string of the model.
IsSpace(c) ==
    c \in {" ", "\t", "\n", "\r", "\f",
           "", "", "", "", "", "", " ", " "}

MinOf(S) == CHOOSE x \in S : \A y \in S : x <= y
MaxOf(S) == CHOOSE x \in S : \A y \in S : y <= x

\* str.strip(): drop leading and trailing whitespace characters.
strip(s) ==
    LET keep == {i \in 1..Len(s) : ~IsSpace(Char(s, i))}
    IN  IF keep = {} THEN "" ELSE SubSeq(s, MinOf(keep), MaxOf(keep))

\* str.endswith(suffix)
endswith(s, suffix) ==
    /\ Len(suffix) <= Len(s)
    /\ SubSeq(s, Len(s) - Len(suffix) + 1, Len(s)) = suffix

\* str(n) for a natural number n, as the f-strings format it.
RECURSIVE IntToStr(_)
IntToStr(n) ==
    IF n < 10 THEN Char("0123456789", n + 1)
    ELSE IntToStr(n \div 10) \o Char("0123456789", (n % 10) + 1)

(***************************************************************************)
(* One-shot widget values.  st.chat_input returns None or the submitted    *)
(* text: None is <<>>, a submitted text s is <<s>>.                        *)
(***************************************************************************)
None == <<>>
Some(s) == <<s>>

\* Python truthiness of chat_input's return value (`if user_answer:`).
Truthy(user_answer) == user_answer # None /\ user_answer[1] # ""

\* Raw texts a user may submit: the empty text, a blank text (space, tab,
\* U+000B), and two texts with whitespace around a letter (the last one
\* ends in \n and U+001C).
UserInputs == {"", " \t", " a ", "b\n"}

\* Outcomes of llm.invoke(prompt): it returns content, or it raises.
LLMResults ==
    { [raised |-> FALSE, text |-> "REPORT_X"],
      [raised |-> TRUE,  text |-> "timeout"] }

\* No call of llm.invoke.
NoLLM == [raised |-> FALSE, text |-> ""]

(***************************************************************************)
(* The session record the logic functions work on.                         *)
(***************************************************************************)
Session ==
    [ answers            |-> answers,
      chat_history       |-> chat_history,
      interview_started  |-> interview_started,
      interview_complete |-> interview_complete,
      report_generated   |-> report_generated ]

\* Lines 28-39: the state a new session gets.
InitialSession ==
    [ answers            |-> <<>>,
      chat_history       |-> <<>>,
      interview_started  |-> FALSE,
      interview_complete |-> FALSE,
      report_generated   |-> FALSE ]

Bot(content)  == [role |-> "bot",  content |-> content]
User(content) == [role |-> "user", content |-> content]

\* The transcript text of question number n+1 (n answers collected).
QuestionEntry(n) == Bot("**Q" \o IntToStr(n + 1) \o ":** " \o questions[n + 1])

\* Variant of AlreadyAsked that compares the whole entry text with the
\* question text.
AlreadyAsked_exact(hist, question_text) ==
    /\ hist # <<>>
    /\ hist[Len(hist)].role = "bot"
    /\ hist[Len(hist)].content = question_text

\* The duplicate test of ask_question_logic: the last transcript entry is
\* already a bot entry ending in the question text.
AlreadyAsked(hist, question_text) ==
    /\ hist # <<>>
    /\ hist[Len(hist)].role = "bot"
    /\ endswith(hist[Len(hist)].content, question_text)

\* ask_question_logic: returns the new chat_history; answers are untouched.
ask_question_logic(ans, hist) ==
    LET num_answers == Len(ans)
    IN  IF num_answers < Len(questions)
        THEN IF ~AlreadyAsked(hist, questions[num_answers + 1])
             THEN Append(hist, QuestionEntry(num_answers))
             ELSE hist
        ELSE hist

\* Variant of collect_answer_logic that puts the new answer first.
collect_answer_logic_prepend(ans, hist, user_input) ==
    LET answer == strip(user_input)
    IN  IF answer # ""
        THEN [answers |-> <<answer>> \o ans,
              chat_history |-> Append(hist, User(answer))]
        ELSE [answers |-> ans, chat_history |-> hist]

\* collect_answer_logic: returns the new answers and chat_history.
collect_answer_logic(ans, hist, user_input) ==
    LET answer == strip(user_input)
    IN  IF answer # ""
        THEN [answers |-> Append(ans, answer),
              chat_history |-> Append(hist, User(answer))]
        ELSE [answers |-> ans, chat_history |-> hist]

\* check_completion_condition: the phase label.
check_completion_condition(ans) ==
    LET num_answers == Len(ans)
    IN  IF num_answers >= Len(questions)
        THEN "generate_report"
        ELSE "ask_question"

(***************************************************************************)
(* The report prompt.                                                      *)
(***************************************************************************)
\* Variant of QABlock that numbers the blocks from zero.
QABlock_zero_based(ans, i) ==
    "Q" \o IntToStr(i - 1) \o ": " \o questions[i] \o "\n" \o
    "A" \o IntToStr(i - 1) \o ": " \o ans[i]

\* One numbered block per answer: "Q{i+1}: {question}\nA{i+1}: {answer}".
QABlock(ans, i) ==
    "Q" \o IntToStr(i) \o ": " \o questions[i] \o "\n" \o
    "A" \o IntToStr(i) \o ": " \o ans[i]

\* "\n".join of the blocks 1..n.
RECURSIVE JoinBlocks(_, _)
JoinBlocks(ans, n) ==
    IF n = 0 THEN ""
    ELSE IF n = 1 THEN QABlock(ans, 1)
    ELSE JoinBlocks(ans, n - 1) \o "\n" \o QABlock(ans, n)

formatted_answers(ans) == JoinBlocks(ans, Len(ans))

\* The characters of the prompt that a string of the model cannot hold:
\* the em dash (U+2014, five times in lines 107-111) and the right single
\* quotation mark (U+2019, once in line 111), as code points.
EmDash == 8212
RightQuote == 8217

\* Lines 102-115: the f-string with the text formatted in the place of
\* {formatted_answers}, as the tuple of its pieces.
PromptTemplate(formatted) ==
    << "\nYou are an experienced HR specialist responsible for evaluating job candidates after structured interviews. Below are the candidate's responses to a series of interview questions. Your task is to write a well-structured, formal 5-paragraph evaluation report. This report should reflect the candidate's communication skills, professional experience, critical thinking, and cultural fit for the role.\n" \o
       "\nPlease ensure the report includes:\n" \o
       "\n1. **Introduction** ",
       EmDash,
       " Briefly introduce the candidate and the interview context.\n" \o
       "2. **Strengths** ",
       EmDash,
       " Highlight key strengths observed from the responses.\n" \o
       "3. **Weaknesses or Areas for Improvement** ",
       EmDash,
       " Mention any concerns or gaps noted during the interview.\n" \o
       "4. **Overall Impression** ",
       EmDash,
       " Summarize how the candidate presented themselves professionally.\n" \o
       "5. **Recommendation** ",
       EmDash,
       " Conclude with your recommendation on the candidate",
       RightQuote,
       "s suitability for the role (e.g., move forward to next round, strong hire, needs more evaluation, etc.).\n" \o
       "\nInterview Responses:\n" \o formatted \o "\n" >>

Prompt(ans) == PromptTemplate(formatted_answers(ans))

NoAnswersText == "No answers collected. Cannot generate report."
ReportHeading == "### Final Evaluation Report:\n"
ErrorPrefix   == "Error generating report: "

\* Lines 119 and 121: the transcript entry for the outcome of the call.
PostedEntry(llm_result) ==
    IF llm_result.raised
    THEN Bot(ErrorPrefix \o llm_result.text)
    ELSE Bot(ReportHeading \o llm_result.text)

\* Variant of generate_report_logic without the test for no answers.
generate_report_logic_no_empty_test(ans, hist, llm_result) ==
    IF Len(ans) > Len(questions)
    THEN [chat_history |-> hist,
          prompts      |-> <<>>,
          raised       |-> TRUE]
    ELSE [chat_history |-> Append(hist, PostedEntry(llm_result)),
          prompts      |-> <<Prompt(ans)>>,
          raised       |-> FALSE]

\* generate_report_logic: returns the new chat_history, the prompts it
\* sent to llm.invoke (none, or one) and whether it raised.  llm_result is
\* what the call does.  With more answers than questions, questions[i] at
\* line 100 raises IndexError before the prompt is built.
generate_report_logic(ans, hist, llm_result) ==
    IF ans = <<>>
    THEN [chat_history |-> Append(hist, Bot(NoAnswersText)),
          prompts      |-> <<>>,
          raised       |-> FALSE]
    ELSE IF Len(ans) > Len(questions)
    THEN [chat_history |-> hist,
          prompts      |-> <<>>,
          raised       |-> TRUE]
    ELSE [chat_history |-> Append(hist, PostedEntry(llm_result)),
          prompts      |-> <<Prompt(ans)>>,
          raised       |-> FALSE]

(***************************************************************************)
(* The script body, lines 160-240.  A branch of the script writes the      *)
(* session in several places, one after the other.  Streamlit ends a       *)
(* running pass at its next yield point (every st.* element call and every *)
(* access of st.session_state) once a request to run the script again or   *)
(* to stop has arrived, so a pass can end between two of its writes.  Each *)
(* flow returns its trail (the session at the start of the pass and after  *)
(* each write of the branch, in order), for each write the object it       *)
(* creates, its yield points, how the branch ends when it is not stopped,  *)
(* the branch name, whether it drew the chat_input widget, and the prompts *)
(* it sends.                                                               *)
(***************************************************************************)
\* A yield point of a pass: the number of writes the pass has made when it
\* reaches the point, and whether st.chat_input (line 190) and st.button
\* (line 227) have been drawn by then.  Streamlit looks for a pending
\* request before it draws the element of an st.* call, so the element of
\* the call that yields is not drawn.
YieldPoint(writes, input_drawn, button_drawn) ==
    [ writes       |-> writes,
      input_drawn  |-> input_drawn,
      button_drawn |-> button_drawn ]

PassResult(trail, creates, yields, ends, op, input_rendered, prompts) ==
    [ trail          |-> trail,
      creates        |-> creates,
      yields         |-> yields,
      ends           |-> ends,
      op             |-> op,
      input_rendered |-> input_rendered,
      prompts        |-> prompts ]

\* Line 174: the interview has to be initialised.
NeedsInit(s) == ~s.interview_started /\ ~s.interview_complete

\* Lines 175-177: mark the interview started (line 175), post the first
\* question (line 55, an append to the list in place), rerun.  The pass
\* yields at the access of line 175 (nothing written yet) and, when a
\* question is left to ask (line 50), at the accesses of lines 52-55
\* (interview_started written); line 176 passes the local
\* current_graph_state, so there is no other access before st.rerun().
InitInterview(s) ==
    LET started == [s EXCEPT !.interview_started = TRUE]
        asked   == [started EXCEPT !.chat_history =
                        ask_question_logic(started.answers, started.chat_history)]
        to_ask  == IF Len(s.answers) < Len(questions)
                   THEN {YieldPoint(1, FALSE, FALSE)}
                   ELSE {}
    IN  PassResult(<<s, started, asked>>,
                   <<"none", "none">>,
                   {YieldPoint(0, FALSE, FALSE)} \cup to_ask,
                   "rerun", "init", FALSE, <<>>)

\* Line 180.
interview_is_complete(num_answers) == num_answers >= total_questions

\* Variant of InputPhase that draws the chat_input in every phase.
InputPhase_unguarded(current_phase, is_complete) == TRUE

\* Lines 184-185: the pass draws the chat_input and accepts an answer.
InputPhase(current_phase, is_complete) ==
    current_phase = "ask_question" /\ ~is_complete

\* Lines 195-203: collect_answer_logic posts the user's entry on the
\* transcript (line 68, an append in place) and returns the new graph
\* state, a copy (lines 65 and 70), or the old one for a blank text (line
\* 73); line 197 stores it; ask_question_logic posts the next question
\* (line 55, in place); rerun.  The chat_input is drawn when the flow
\* starts; the pass yields at the accesses of lines 68, 197 and 200/52-55.
AnswerFlow(s, user_answer) ==
    LET collected == collect_answer_logic(s.answers, s.chat_history, user_answer[1])
        posted    == [s EXCEPT !.chat_history = collected.chat_history]
        stored    == [posted EXCEPT !.answers = collected.answers]
        asked     == [stored EXCEPT !.chat_history =
                          ask_question_logic(stored.answers, stored.chat_history)]
    IN  PassResult(<<s, posted, stored, asked>>,
                   <<"none",
                     IF strip(user_answer[1]) # "" THEN "graph_state" ELSE "none",
                     "none">>,
                   {YieldPoint(k, TRUE, FALSE) : k \in 0..2},
                   "rerun", "answer", TRUE, <<>>)

\* Line 206: the report has still to be generated.
ReportDue(s) == ~s.report_generated

\* Lines 207-211 and 93-118: set the flag (line 208), draw the notice
\* (st.info, line 209, a yield point), build the prompt and call
\* llm.invoke; the pass waits in the call.  (When generate_report_logic
\* does not reach the call, the pass goes on to lines 213-215, or ends in
\* the IndexError of line 100.)
ReportFlow(s) ==
    LET generated == generate_report_logic(s.answers, s.chat_history, NoLLM)
        flagged   == [s EXCEPT !.report_generated = TRUE]
        posted    == [flagged EXCEPT !.chat_history = generated.chat_history]
        completed == [posted EXCEPT !.interview_complete = TRUE]
        to_call   == {YieldPoint(0, FALSE, FALSE), YieldPoint(1, FALSE, FALSE)}
    IN  IF generated.prompts # <<>>
        THEN PassResult(<<s, flagged>>, <<"none">>, to_call,
                        "invoke", "invoke", FALSE, generated.prompts)
        ELSE IF generated.raised
        THEN PassResult(<<s, flagged>>, <<"none">>, to_call,
                        "raise", "invoke", FALSE, <<>>)
        ELSE PassResult(<<s, flagged, posted, completed>>,
                        <<"none", "none", "none">>,
                        to_call \cup {YieldPoint(2, FALSE, FALSE)},
                        "rerun", "invoke", FALSE, <<>>)

\* Lines 118-123 and 213-215: llm.invoke returns or raises an Exception,
\* the report or the error is posted (line 119 or 121, an append in place),
\* the interview is marked complete (line 213), rerun.  The pass yields at
\* the accesses of lines 119/121 and 213.
ReportReturn(s, llm_result) ==
    LET posted    == [s EXCEPT !.chat_history =
                          Append(s.chat_history, PostedEntry(llm_result))]
        completed == [posted EXCEPT !.interview_complete = TRUE]
    IN  PassResult(<<s, posted, completed>>,
                   <<"none", "none">>,
                   {YieldPoint(0, FALSE, FALSE), YieldPoint(1, FALSE, FALSE)},
                   "rerun", "report", FALSE, <<>>)

\* The pass r, reached after the yield points before.
WithYields(r, before) == [r EXCEPT !.yields = before \cup r.yields]

\* Lines 230-240: the reset button handler: five assignments, in this
\* order, the first two of a new dict and a new list, then the test of
\* line 237 and st.rerun().  The button is drawn when the handler starts;
\* the pass yields at each of the accesses of lines 230-237.
ResetHandler(s, input_rendered) ==
    LET cleared_1 == [s EXCEPT !.answers = <<>>]
        cleared_2 == [cleared_1 EXCEPT !.chat_history = <<>>]
        cleared_3 == [cleared_2 EXCEPT !.interview_complete = FALSE]
        cleared_4 == [cleared_3 EXCEPT !.report_generated = FALSE]
        cleared_5 == [cleared_4 EXCEPT !.interview_started = FALSE]
    IN  PassResult(<<s, cleared_1, cleared_2, cleared_3, cleared_4, cleared_5>>,
                   <<"graph_state", "chat_history", "none", "none", "none">>,
                   {YieldPoint(k, input_rendered, TRUE) : k \in 0..5},
                   "rerun", "reset", input_rendered, <<>>)

\* Lines 218-240: the end of the script, reached when no st.rerun() stopped
\* the pass: the completion message and the reset button.  The pass yields
\* at the access of line 220 and at st.success, st.info and st.button
\* (lines 221-227), the button not yet drawn.
ScriptEnd(s, clicked, input_rendered) ==
    LET to_button == {YieldPoint(0, input_rendered, FALSE)}
    IN  IF clicked
        THEN WithYields(ResetHandler(s, input_rendered), to_button)
        ELSE PassResult(<<s>>, <<>>, to_button, "end", "render",
                        input_rendered, <<>>)

\* The branch of the script a pass over session s takes, with the one-shot
\* widget values user_answer (chat_input) and clicked (button).
BranchOf(s, user_answer, clicked) ==
    LET num_answers   == Len(s.answers)
        is_complete   == interview_is_complete(num_answers)
        current_phase == check_completion_condition(s.answers)
    IN  IF NeedsInit(s)
        THEN InitInterview(s)
        ELSE IF InputPhase(current_phase, is_complete)
        THEN IF Truthy(user_answer)
             THEN AnswerFlow(s, user_answer)
             ELSE ScriptEnd(s, clicked, TRUE)
        ELSE IF current_phase = "generate_report" /\ ReportDue(s)
        THEN ReportFlow(s)
        ELSE ScriptEnd(s, clicked, FALSE)

\* One pass of the script over session s, up to its end or to the call of
\* llm.invoke.  Before its branch every pass yields at st.title (line 160),
\* in the transcript loop (lines 163-165), at the reads of lines 169 and
\* 174 and, when it draws the chat_input, at st.chat_input (line 190):
\* nothing written, nothing drawn.
ScriptRun(s, user_answer, clicked) ==
    WithYields(BranchOf(s, user_answer, clicked),
               {YieldPoint(0, FALSE, FALSE)})

\* Where a pass ends: it runs on to the end of its branch, or Streamlit
\* ends it at the yield point y.
Unstopped == <<>>
StoppedAt(y) == <<y>>

StopsOf(r) == { StoppedAt(y) : y \in r.yields }

\* The number of writes a pass made.
WritesOf(r, stop) ==
    IF stop = Unstopped THEN Len(r.trail) - 1 ELSE stop[1].writes

\* The session as the pass leaves it.
SessionOf(r, stop) == r.trail[WritesOf(r, stop) + 1]

(***************************************************************************)
(* The objects st.session_state refers to.  The dict under graph_state     *)
(* (with its answers list) and the list under chat_history are mutable     *)
(* objects: an append in place is seen through every reference to the      *)
(* list.  Objects are named by numbers, and only which references name the *)
(* same object matters: a new object ({...}, [], .copy()) takes the        *)
(* smallest number that no reference other than the one being assigned     *)
(* holds.                                                                  *)
(***************************************************************************)
\* Variant of NewObject that hands out one and the same object every time.
NewObject_shared(held) == 1

NewObject(held) ==
    MinOf({n \in 1..(Cardinality(held) + 1) : n \notin held})

\* Lines 31 and 33: the dict and the list of a new session.
NewObjects(held) ==
    LET dict == NewObject(held)
    IN  [graph_state |-> dict, chat_history |-> NewObject(held \cup {dict})]

\* The objects a session refers to after the first k writes of the branch;
\* elsewhere are the objects other sessions refer to.
RECURSIVE ObjectsAfter(_, _, _, _)
ObjectsAfter(objs, creates, k, elsewhere) ==
    IF k = 0 THEN objs
    ELSE LET prev == ObjectsAfter(objs, creates, k - 1, elsewhere)
         IN  IF creates[k] = "graph_state"
             THEN [prev EXCEPT !.graph_state =
                       NewObject(elsewhere \cup {prev.chat_history})]
             ELSE IF creates[k] = "chat_history"
             THEN [prev EXCEPT !.chat_history =
                       NewObject(elsewhere \cup {prev.graph_state})]
             ELSE prev

\* The transcript list the pass started with, as the pass leaves it: with
\* the entries appended before the session was given another list.
ListLeft(r, stop) ==
    LET k       == WritesOf(r, stop)
        rebinds == {j \in 1..k : r.creates[j] = "chat_history"}
        kept    == IF rebinds = {} THEN k ELSE MinOf(rebinds) - 1
    IN  r.trail[kept + 1].chat_history

(***************************************************************************)
(* The state machine.                                                      *)
(***************************************************************************)
\* The number of passes that are ended at a yield point.
MaxStops == 1

\* What a pass started from: the answer count, the transcript length and
\* the three flags.
Summary(s) ==
    [ num_answers |-> Len(s.answers),
      num_entries |-> Len(s.chat_history),
      started     |-> s.interview_started,
      complete    |-> s.interview_complete,
      generated   |-> s.report_generated ]

\* Everything Streamlit and the model keep for one browser session.
Own ==
    [ session       |-> Session,
      objects       |-> objects,
      rerun_pending |-> rerun_pending,
      invoking      |-> invoking,
      input_shown   |-> input_shown,
      button_shown  |-> button_shown,
      llm_log       |-> llm_log,
      submitted     |-> submitted,
      last_pass     |-> last_pass ]

\* A session that has just been opened: the page load runs the script.
\* held are the objects the sessions opened before refer to.
NewSession(held) ==
    [ session       |-> InitialSession,
      objects       |-> NewObjects(held),
      rerun_pending |-> TRUE,
      invoking      |-> 0,
      input_shown   |-> FALSE,
      button_shown  |-> FALSE,
      llm_log       |-> <<>>,
      submitted     |-> 0,
      last_pass     |-> [op |-> "none", user_answer |-> None, clicked |-> FALSE,
                         llm |-> NoLLM, stopped |-> FALSE,
                         before |-> Summary(InitialSession)] ]

ObjectsIn(rec) == {rec.objects.graph_state, rec.objects.chat_history}

FirstSession == NewSession({})

SecondSession == NewSession(ObjectsIn(FirstSession))

Init ==
    /\ answers = FirstSession.session.answers
    /\ chat_history = FirstSession.session.chat_history
    /\ interview_started = FirstSession.session.interview_started
    /\ interview_complete = FirstSession.session.interview_complete
    /\ report_generated = FirstSession.session.report_generated
    /\ objects = FirstSession.objects
    /\ rerun_pending = FirstSession.rerun_pending
    /\ invoking = FirstSession.invoking
    /\ input_shown = FirstSession.input_shown
    /\ button_shown = FirstSession.button_shown
    /\ llm_log = FirstSession.llm_log
    /\ submitted = FirstSession.submitted
    /\ last_pass = FirstSession.last_pass
    /\ stops = 0
    /\ peer = SecondSession

\* The pass r of the script in the session rec, with the given widget
\* values, ending as stop says: the session as the pass leaves it, or as it
\* is while the pass waits in llm.invoke.  A pass that Streamlit ends for a
\* request to run the script again is followed by a new pass (again); one
\* that it ends for a request to stop is not, and the page is left with
\* what the pass had drawn.  elsewhere are the objects other sessions refer
\* to.
AfterPass(rec, r, elsewhere, user_answer, clicked, stop, again) ==
    LET stopped == stop # Unstopped
        rerun   == IF stopped THEN again ELSE r.ends = "rerun"
        running == ~stopped /\ r.ends = "invoke"
        began   == WritesOf(r, stop) >= 1
    IN  [ session       |-> SessionOf(r, stop),
          objects       |-> ObjectsAfter(rec.objects, r.creates,
                                         WritesOf(r, stop), elsewhere),
          rerun_pending |-> rerun,
          invoking      |-> IF running THEN 1 ELSE 0,
          \* a pass that is still running, or that ended for st.rerun() or
          \* for a request to run again, leaves the page as it was until
          \* the next pass has drawn it
          input_shown   |-> IF rerun \/ running THEN rec.input_shown
                            ELSE IF stopped THEN stop[1].input_drawn
                            ELSE r.input_rendered,
          button_shown  |-> IF rerun \/ running THEN rec.button_shown
                            ELSE IF stopped THEN stop[1].button_drawn
                            ELSE r.ends = "end",
          llm_log       |-> IF r.op = "reset" /\ began THEN <<>>
                            ELSE IF stopped THEN rec.llm_log
                            ELSE rec.llm_log \o r.prompts,
          submitted     |-> IF r.op = "reset" /\ began THEN 0
                            ELSE IF r.op = "answer" /\ began
                                    /\ strip(user_answer[1]) # ""
                                 THEN rec.submitted + 1
                                 ELSE rec.submitted,
          last_pass     |-> [op |-> r.op, user_answer |-> user_answer,
                             clicked |-> clicked, llm |-> NoLLM,
                             stopped |-> stopped,
                             before |-> Summary(rec.session)] ]

\* The call the pass of session rec waits in ends, by a return or by an
\* Exception, and the pass goes on (r), to its st.rerun() or to the yield
\* point at which Streamlit ends it.
AfterReturn(rec, r, llm_result, stop, again) ==
    LET stopped == stop # Unstopped
        rerun   == IF stopped THEN again ELSE r.ends = "rerun"
    IN  [rec EXCEPT !.session       = SessionOf(r, stop),
                    !.rerun_pending = rerun,
                    !.invoking      = rec.invoking - 1,
                    !.input_shown   = IF rerun THEN rec.input_shown
                                      ELSE stop[1].input_drawn,
                    !.button_shown  = IF rerun THEN rec.button_shown
                                      ELSE stop[1].button_drawn,
                    !.last_pass     = [rec.last_pass EXCEPT !.op = r.op,
                                                            !.llm = llm_result,
                                                            !.stopped = stopped]]

\* Lines 118-120: the pass of session rec is ended while it waits in
\* llm.invoke, by a BaseException that is not an Exception (the class of
\* Streamlit's control exceptions and of KeyboardInterrupt), which line 120
\* does not catch: lines 119-121 and 213-215 are not run.
AfterStopped(rec, again) ==
    [rec EXCEPT !.rerun_pending = again,
                !.invoking      = rec.invoking - 1,
                !.input_shown   = IF again THEN rec.input_shown ELSE FALSE,
                !.button_shown  = IF again THEN rec.button_shown ELSE FALSE,
                !.last_pass     = [rec.last_pass EXCEPT !.stopped = TRUE]]

\* What a pass in the session acting leaves of another session.
\* st.session_state is a store per session, so the pass assigns nothing in
\* the other session; but what it appended in place to the list it started
\* with, and left there (left), is seen by every session that refers to
\* that list.  (The dict and the answers list are never changed in place:
\* lines 65 and 70 copy them.)
OtherSession(other, acting, left) ==
    IF other.objects.chat_history = acting.objects.chat_history
    THEN [other EXCEPT !.session.chat_history = left]
    ELSE other

\* The first session becomes rec.
SetOwn(rec) ==
    /\ answers' = rec.session.answers
    /\ chat_history' = rec.session.chat_history
    /\ interview_started' = rec.session.interview_started
    /\ interview_complete' = rec.session.interview_complete
    /\ report_generated' = rec.session.report_generated
    /\ objects' = rec.objects
    /\ rerun_pending' = rec.rerun_pending
    /\ invoking' = rec.invoking
    /\ input_shown' = rec.input_shown
    /\ button_shown' = rec.button_shown
    /\ llm_log' = rec.llm_log
    /\ submitted' = rec.submitted
    /\ last_pass' = rec.last_pass

\* The first session becomes rec; the second is left to OtherSession.
Own_becomes(rec, left) ==
    /\ SetOwn(rec)
    /\ peer' = OtherSession(peer, Own, left)

\* The second session becomes rec; the first is left to OtherSession.
Peer_becomes(rec, left) ==
    /\ peer' = rec
    /\ SetOwn(OtherSession(Own, peer, left))

\* The ways the branch r may end: at its end, or, while fewer than MaxStops
\* passes have been ended early, at one of its yield points.
EndingsOf(r) ==
    {Unstopped} \cup (IF stops < MaxStops THEN StopsOf(r) ELSE {})

\* Whether a new pass follows: decided by st.rerun() for a pass that runs
\* to its end, by the kind of request for one that Streamlit ends.
FollowUps(stop) == IF stop = Unstopped THEN {FALSE} ELSE BOOLEAN

Counted(stop) == stops' = IF stop = Unstopped THEN stops ELSE stops + 1

\* Run the script in the first session and store the result.
Pass(user_answer, clicked) ==
    \E r \in {ScriptRun(Own.session, user_answer, clicked)} :
        \E stop \in EndingsOf(r) :
           \E again \in FollowUps(stop) :
              /\ Own_becomes(AfterPass(Own, r, ObjectsIn(peer), user_answer,
                                       clicked, stop, again),
                             ListLeft(r, stop))
              /\ Counted(stop)

\* Run the script in the second session and store the result.
PeerPass(user_answer, clicked) ==
    \E r \in {ScriptRun(peer.session, user_answer, clicked)} :
        \E stop \in EndingsOf(r) :
           \E again \in FollowUps(stop) :
              /\ Peer_becomes(AfterPass(peer, r, ObjectsIn(Own), user_answer,
                                        clicked, stop, again),
                              ListLeft(r, stop))
              /\ Counted(stop)

\* The texts a user submits for answer number n + 1: the empty text, the
\* blank text and a text with whitespace around a letter, which changes
\* from answer to answer.
TextsFor(n) ==
    {"", " \t", IF n % 2 = 0 THEN " a " ELSE "b\n"}

\* The widget values a user can produce on the page of session rec as it
\* is shown: nothing, one submitted text out of texts, or one click.
InteractionsOf(rec, texts) ==
    {<<None, FALSE>>}
    \cup (IF rec.input_shown THEN {<<Some(u), FALSE>> : u \in texts} ELSE {})
    \cup (IF rec.button_shown THEN {<<None, TRUE>>} ELSE {})

Interactions(texts) == InteractionsOf(Own, texts)

\* No pass of the session is running or scheduled: Streamlit starts a pass
\* for a user interaction at once.
Idle(rec) == ~rec.rerun_pending /\ rec.invoking = 0

\* The pass that the page load, st.rerun() or a request to run again
\* scheduled.  An interaction made while the previous pass was running is
\* delivered with it.
RerunPassOf(texts) ==
    /\ rerun_pending
    /\ \E w \in Interactions(texts) : Pass(w[1], w[2])

\* The user submits a text in the chat_input while the script is idle.
SubmitPassOf(texts) ==
    /\ Idle(Own)
    /\ input_shown
    /\ \E u \in texts : Pass(Some(u), FALSE)

RerunPass == RerunPassOf(TextsFor(Len(answers)))

SubmitPass == SubmitPassOf(TextsFor(Len(answers)))

\* The user clicks "Start New Interview" while the script is idle.
ClickPass ==
    /\ Idle(Own)
    /\ button_shown
    /\ Pass(None, TRUE)

\* llm.invoke returns or raises an Exception and the waiting pass goes on.
CallReturns ==
    /\ invoking > 0
    /\ \E llm_result \in LLMResults :
          \E r \in {ReportReturn(Own.session, llm_result)} :
              \E stop \in EndingsOf(r) :
                 \E again \in FollowUps(stop) :
                    /\ Own_becomes(AfterReturn(Own, r, llm_result, stop, again),
                                   ListLeft(r, stop))
                    /\ Counted(stop)

\* The waiting pass is ended during the call.
CallStopped ==
    /\ invoking > 0
    /\ stops < MaxStops
    /\ \E again \in BOOLEAN :
          /\ Own_becomes(AfterStopped(Own, again), chat_history)
          /\ stops' = stops + 1

Next == RerunPass \/ SubmitPass \/ ClickPass \/ CallReturns \/ CallStopped

Spec == Init /\ [][Next]_vars

(***************************************************************************)
(* The specification for progress properties.  A scheduled pass always     *)
(* runs, so it is weakly fair; so is the end of the call by a return or an *)
(* Exception, for a call that does not hang; the user's passes and the     *)
(* stop during the call are not.                                           *)
(***************************************************************************)
FairSpec == Spec /\ WF_vars(RerunPass) /\ WF_vars(CallReturns)

(***************************************************************************)
(* The specification for two browser sessions of the same script whose     *)
(* passes interleave in any order, also while one of them waits in         *)
(* llm.invoke.  The sessions submit different texts.  The user of the      *)
(* first session stays at the start of the interview (PairMaxAnswers       *)
(* answers, then blank texts only, and resets); the user of the second     *)
(* session goes through all of it.                                         *)
(***************************************************************************)
PairMaxAnswers == 1

PairInputs ==
    IF Len(answers) < PairMaxAnswers THEN {" a "} ELSE {" \t"}

PeerInputs == {"b\n"}

PairRerunPass == RerunPassOf(PairInputs)

PairSubmitPass == SubmitPassOf(PairInputs)

PairClickPass == ClickPass

PeerRerunPass ==
    /\ peer.rerun_pending
    /\ \E w \in InteractionsOf(peer, PeerInputs) : PeerPass(w[1], w[2])

PeerSubmitPass ==
    /\ Idle(peer)
    /\ peer.input_shown
    /\ \E u \in PeerInputs : PeerPass(Some(u), FALSE)

PeerClickPass ==
    /\ Idle(peer)
    /\ peer.button_shown
    /\ PeerPass(None, TRUE)

PeerCallReturns ==
    /\ peer.invoking > 0
    /\ \E llm_result \in LLMResults :
          \E r \in {ReportReturn(peer.session, llm_result)} :
              \E stop \in EndingsOf(r) :
                 \E again \in FollowUps(stop) :
                    /\ Peer_becomes(AfterReturn(peer, r, llm_result, stop,
                                                again),
                                    ListLeft(r, stop))
                    /\ Counted(stop)

PeerCallStopped ==
    /\ peer.invoking > 0
    /\ stops < MaxStops
    /\ \E again \in BOOLEAN :
          /\ Peer_becomes(AfterStopped(peer, again), peer.session.chat_history)
          /\ stops' = stops + 1

PairNext ==
    \/ PairRerunPass \/ PairSubmitPass \/ PairClickPass
    \/ PeerRerunPass \/ PeerSubmitPass \/ PeerClickPass
    \/ PeerCallReturns \/ PeerCallStopped

PairSpec == Init /\ [][PairNext]_vars

(***************************************************************************)
(* The specification for the logic functions on their own.  The three      *)
(* functions registered as graph nodes (lines 131-133) are called directly *)
(* on a session, in any order, starting from a session with some answers   *)
(* and an empty transcript.  Nothing in collect_answer_logic stops it at   *)
(* the number of questions; on more answers than questions                 *)
(* generate_report_logic raises IndexError.  generate_report_logic waits   *)
(* in llm.invoke, and any of the three functions may be called on the      *)
(* session while it waits: a call of generate_report_logic built its       *)
(* prompt from the answers it was called with, and posts on the transcript *)
(* as it is when its call of llm.invoke ends.                              *)
(***************************************************************************)
DirectMaxHistory == 3

NineAnswers == <<"a", "b", "a", "b", "a", "b", "a", "b", "a">>

DirectAnswers ==
    { <<>>, <<"a">>, <<"a", "b">>, NineAnswers, Append(NineAnswers, "b") }

DirectInit ==
    /\ answers \in DirectAnswers
    /\ chat_history = <<>>
    /\ interview_started = FALSE
    /\ interview_complete = FALSE
    /\ report_generated = FALSE
    /\ objects = FirstSession.objects
    /\ rerun_pending = FALSE
    /\ invoking = 0
    /\ input_shown = FALSE
    /\ button_shown = FALSE
    /\ llm_log = <<>>
    /\ submitted = 0
    /\ last_pass = [op |-> "none", user_answer |-> None, clicked |-> FALSE,
                    llm |-> NoLLM, stopped |-> FALSE,
                    before |-> Summary(Session)]
    /\ stops = 0
    /\ peer = SecondSession

DirectFrame ==
    UNCHANGED <<interview_started, interview_complete, report_generated,
                objects, rerun_pending, input_shown, button_shown, stops, peer>>

\* ask_question_logic(state)
DirectAsk ==
    /\ Len(chat_history) < DirectMaxHistory
    /\ chat_history' = ask_question_logic(answers, chat_history)
    /\ answers' = answers
    /\ llm_log' = llm_log
    /\ submitted' = submitted
    /\ invoking' = invoking
    /\ last_pass' = [op |-> "ask", user_answer |-> None, clicked |-> FALSE,
                     llm |-> NoLLM, stopped |-> FALSE,
                     before |-> Summary(Session)]
    /\ DirectFrame

\* state = collect_answer_logic(state, user_input)
DirectCollect ==
    /\ Len(chat_history) < DirectMaxHistory
    /\ \E u \in UserInputs :
          LET collected == collect_answer_logic(answers, chat_history, u)
          IN  /\ answers' = collected.answers
              /\ chat_history' = collected.chat_history
              /\ submitted' = IF strip(u) # "" THEN submitted + 1 ELSE submitted
              /\ last_pass' = [op |-> "collect", user_answer |-> Some(u),
                               clicked |-> FALSE, llm |-> NoLLM,
                               stopped |-> FALSE,
                               before |-> Summary(Session)]
    /\ llm_log' = llm_log
    /\ invoking' = invoking
    /\ DirectFrame

\* generate_report_logic(state), lines 93-118: up to its return at line 97,
\* to the IndexError of line 100, or to the call of llm.invoke, where it
\* waits with nothing posted yet.
DirectReport ==
    /\ Len(chat_history) < DirectMaxHistory
    /\ Len(llm_log) < DirectMaxHistory
    /\ LET generated == generate_report_logic(answers, chat_history, NoLLM)
           calls     == generated.prompts # <<>>
       IN  /\ chat_history' = IF calls THEN chat_history
                              ELSE generated.chat_history
           /\ llm_log' = llm_log \o generated.prompts
           /\ invoking' = IF calls THEN invoking + 1 ELSE invoking
           /\ last_pass' = [op |-> "generate",
                            user_answer |-> None,
                            clicked |-> FALSE,
                            llm |-> NoLLM,
                            stopped |-> FALSE,
                            before |-> Summary(Session)]
    /\ answers' = answers
    /\ submitted' = submitted
    /\ DirectFrame

\* Lines 118-123: a call of llm.invoke ends by a return or an Exception,
\* and generate_report_logic posts the report or the error and returns.
DirectReturns ==
    /\ invoking > 0
    /\ \E llm_result \in LLMResults :
          /\ chat_history' = Append(chat_history, PostedEntry(llm_result))
          /\ last_pass' = [op |-> "report", user_answer |-> None,
                           clicked |-> FALSE, llm |-> llm_result,
                           stopped |-> FALSE,
                           before |-> Summary(Session)]
    /\ invoking' = invoking - 1
    /\ answers' = answers
    /\ llm_log' = llm_log
    /\ submitted' = submitted
    /\ DirectFrame

\* Lines 118-120: a call of llm.invoke ends by a BaseException that is not
\* an Exception; generate_report_logic is left with nothing posted.
DirectStopped ==
    /\ invoking > 0
    /\ invoking' = invoking - 1
    /\ last_pass' = [op |-> "raised", user_answer |-> None,
                     clicked |-> FALSE, llm |-> NoLLM,
                     stopped |-> TRUE,
                     before |-> Summary(Session)]
    /\ UNCHANGED <<answers, chat_history, llm_log, submitted>>
    /\ DirectFrame

DirectNext ==
    \/ DirectAsk \/ DirectCollect \/ DirectReport
    \/ DirectReturns \/ DirectStopped

DirectSpec == DirectInit /\ [][DirectNext]_vars

(***************************************************************************)
(* Vocabulary of the properties.                                           *)
(***************************************************************************)
startswith(s, prefix) ==
    /\ Len(prefix) <= Len(s)
    /\ SubSeq(s, 1, Len(prefix)) = prefix

IsBlank(text) == \A i \in 1..Len(text) : IsSpace(Char(text, i))

IsQuestionEntry(e) == e.role = "bot" /\ startswith(e.content, "**Q")
IsUserEntry(e) == e.role = "user"
IsReportOrErrorEntry(e) ==
    /\ e.role = "bot"
    /\ \/ startswith(e.content, ReportHeading)
       \/ startswith(e.content, ErrorPrefix)

QuestionEntries(hist) == SelectSeq(hist, IsQuestionEntry)
UserEntries(hist) == SelectSeq(hist, IsUserEntry)
ReportEntries(hist) == SelectSeq(hist, IsReportOrErrorEntry)

\* The state of the four-state machine a session is in.  ReportPending
\* lasts from the tenth answer until the report call has completed.
MachineState ==
    IF ~interview_started /\ ~interview_complete /\ ~report_generated
       /\ answers = <<>> /\ chat_history = <<>>
    THEN <<"NotStarted", 0>>
    ELSE IF interview_started /\ ~interview_complete /\ ~report_generated
            /\ Len(answers) < 10
    THEN <<"Asking", Len(answers)>>
    ELSE IF interview_started /\ ~interview_complete /\ Len(answers) = 10
    THEN <<"ReportPending", 10>>
    ELSE IF interview_started /\ interview_complete /\ report_generated
            /\ Len(answers) = 10
    THEN <<"Done", 10>>
    ELSE <<"Other", Len(answers)>>

(***************************************************************************)
(* C1.  In every reachable session state the number of collected answers   *)
(* is at most the number of fixed questions: len(answers) <= 10.           *)
(***************************************************************************)
C1_AnswersBounded == Len(answers) <= 10

\* Ten answers have been collected, the last one just now.
C1_Witness ==
    /\ Len(answers) = 10
    /\ last_pass.op = "answer"
    /\ last_pass.before.num_answers = 9

(***************************************************************************)
(* C2.  A pass that receives an empty or whitespace-only text while a      *)
(* question is pending (the interview is started and not complete, fewer   *)
(* than ten answers collected) leaves the whole session as it was:         *)
(* answers, transcript and the three flags; in particular no answer and no *)
(* user transcript entry is added.                                         *)
(***************************************************************************)
QuestionPending ==
    interview_started /\ ~interview_complete /\ Len(answers) < 10

C2_BlankSubmission ==
    /\ QuestionPending
    /\ last_pass'.user_answer # None
    /\ IsBlank(last_pass'.user_answer[1])

C2_BlankSubmissionIgnored ==
    [][C2_BlankSubmission =>
          /\ Len(answers') <= Len(answers)
          /\ UserEntries(chat_history') = UserEntries(chat_history)
          /\ answers' = answers
          /\ chat_history' = chat_history
          /\ interview_started' = interview_started
          /\ interview_complete' = interview_complete
          /\ report_generated' = report_generated]_vars

(***************************************************************************)
(* C3.  The Nth question entry of the transcript is question N: it is      *)
(* numbered N and carries the Nth fixed question text verbatim.  There are *)
(* at most ten question entries, so the questions appear in the order      *)
(* 1, 2, ... and none is posted twice.                                     *)
(***************************************************************************)
C3_QuestionsInOrder ==
    LET qs == QuestionEntries(chat_history)
    IN  /\ Len(qs) <= 10
        /\ \A n \in 1..Len(qs) :
               /\ qs[n].content = "**Q" \o IntToStr(n) \o ":** " \o questions[n]
               /\ endswith(qs[n].content, questions[n])

(***************************************************************************)
(* C4.  Every pass that receives a click on "Start New Interview" leaves   *)
(* the session in its initial state (answers and transcript empty, the     *)
(* three flags false), whatever state the pass started from.               *)
(***************************************************************************)
C4_ResetRestoresAll ==
    [][last_pass'.clicked =>
          /\ answers' = <<>>
          /\ chat_history' = <<>>
          /\ ~interview_started'
          /\ ~interview_complete'
          /\ ~report_generated']_vars

(***************************************************************************)
(* C5.  When llm.invoke raises during report generation, the transcript    *)
(* gains exactly one entry, a bot entry that contains the error text; the  *)
(* answers are unchanged; report_generated and interview_complete are true *)
(* afterwards.                                                             *)
(***************************************************************************)
C5_CallRaised ==
    /\ invoking > 0
    /\ last_pass'.op = "report"
    /\ last_pass'.llm.raised

C5_FailureRecorded ==
    [][C5_CallRaised =>
          /\ Len(chat_history') = Len(chat_history) + 1
          /\ SubSeq(chat_history', 1, Len(chat_history)) = chat_history
          /\ chat_history'[Len(chat_history')].role = "bot"
          /\ endswith(chat_history'[Len(chat_history')].content,
                      last_pass'.llm.text)
          /\ answers' = answers
          /\ report_generated'
          /\ interview_complete']_vars

(***************************************************************************)
(* C6.  Between two resets llm.invoke is called at most once.  Once the    *)
(* report pass has made the call, no pass other than a reset calls it      *)
(* again; when the call has completed (by a return or an Exception) the    *)
(* transcript holds exactly one report-or-error entry, and it keeps        *)
(* exactly one in every pass that is not a reset.                          *)
(***************************************************************************)
C6_NoSecondCall ==
    report_generated /\ last_pass'.op # "reset" => llm_log' = llm_log

C6_OneEntry ==
    /\ invoking > 0 /\ last_pass'.op = "report" =>
          Len(ReportEntries(chat_history')) = 1
    /\ Len(ReportEntries(chat_history)) = 1 /\ last_pass'.op # "reset" =>
          Len(ReportEntries(chat_history')) = 1

C6_SingleInvocation ==
    /\ [](Len(llm_log) <= 1)
    /\ [][C6_NoSecondCall]_vars
    /\ [][C6_OneEntry]_vars

(***************************************************************************)
(* C7.  Every pass that changes the session takes one of the transitions   *)
(* of the machine {NotStarted, Asking(0..9), ReportPending, Done}:         *)
(*   NotStarted -> Asking(0)       on the first render;                    *)
(*   Asking(k)  -> Asking(k+1)     on a non-empty answer, k+1 < 10;        *)
(*   Asking(9)  -> ReportPending   on the tenth answer;                    *)
(*   ReportPending -> Done         when the report call has completed      *)
(*                                 (within ReportPending the report pass   *)
(*                                 sets report_generated and makes the     *)
(*                                 call);                                  *)
(*   Done -> NotStarted            by a reset, and from no other state.    *)
(***************************************************************************)
C7_NonBlankAnswer ==
    /\ last_pass'.op = "answer"
    /\ ~IsBlank(last_pass'.user_answer[1])

C7_Forward ==
    \/ /\ MachineState = <<"NotStarted", 0>>
       /\ MachineState' = <<"Asking", 0>>
       /\ last_pass'.op = "init"
    \/ \E k \in 0..8 :
          /\ MachineState = <<"Asking", k>>
          /\ MachineState' = <<"Asking", k + 1>>
          /\ C7_NonBlankAnswer
    \/ /\ MachineState = <<"Asking", 9>>
       /\ MachineState' = <<"ReportPending", 10>>
       /\ C7_NonBlankAnswer
    \/ /\ MachineState = <<"ReportPending", 10>>
       /\ MachineState' = <<"ReportPending", 10>>
       /\ ~report_generated /\ report_generated'
       /\ last_pass'.op = "invoke"
    \/ /\ MachineState = <<"ReportPending", 10>>
       /\ MachineState' = <<"Done", 10>>
       /\ invoking > 0
       /\ last_pass'.op = "report"
       /\ llm_log' = llm_log

C7_ResetFrom(names) ==
    /\ MachineState[1] \in names
    /\ MachineState' = <<"NotStarted", 0>>
    /\ last_pass'.op = "reset"

C7_ListedTransitions ==
    [][Session' = Session \/ C7_Forward \/ C7_ResetFrom({"Done"})]_vars

(***************************************************************************)
(* C8.  Once the tenth answer has been collected the session reaches Done  *)
(* (interview_complete and report_generated true) with no further user     *)
(* action: by the passes st.rerun() schedules alone, whether llm.invoke    *)
(* returns or raises an Exception.  The proviso "the call returns or       *)
(* raises" leaves out the call that hangs: the end of the call is fair.    *)
(***************************************************************************)
C8_ReportCompletes ==
    (Len(answers) = 10) ~> (interview_complete /\ report_generated)

(***************************************************************************)
(* C9.  The three flags are monotonic: no pass other than a reset sets one *)
(* of them back to false, and within one session lifetime (from one reset  *)
(* to the next) each flag goes from false to true exactly once: not more   *)
(* than once, since it never falls in between, and not less, so a reset    *)
(* that changes the session ends a lifetime in which all three are true.   *)
(***************************************************************************)
C9_Step ==
    /\ last_pass'.op # "reset" =>
          /\ interview_started => interview_started'
          /\ interview_complete => interview_complete'
          /\ report_generated => report_generated'
    /\ last_pass'.op = "reset" /\ Session' # Session =>
          interview_started /\ interview_complete /\ report_generated

C9_FlagsMonotonic == [][C9_Step]_vars

(***************************************************************************)
(* C10.  The completion check returns "ask_question" exactly when fewer    *)
(* than ten answers are collected and "generate_report" otherwise.  After  *)
(* ten non-empty submissions the phase is "generate_report", and it stays  *)
(* so in every pass that is not a reset.                                   *)
(***************************************************************************)
C10_PhaseOfCount ==
    /\ check_completion_condition(answers) \in {"ask_question", "generate_report"}
    /\ check_completion_condition(answers) = "ask_question" <=> Len(answers) < 10
    /\ submitted >= 10 => check_completion_condition(answers) = "generate_report"

C10_PhaseStays ==
    /\ check_completion_condition(answers) = "generate_report"
    /\ last_pass'.op # "reset"
    => check_completion_condition(answers') = "generate_report"

C10_Phase == []C10_PhaseOfCount /\ [][C10_PhaseStays]_vars

(***************************************************************************)
(* C11.  answers and the transcript are append-only between resets: every  *)
(* pass that is not a reset leaves the previous answers and the previous   *)
(* transcript as prefixes of the new ones; once there are ten answers no   *)
(* pass but a reset changes them.                                          *)
(***************************************************************************)
IsPrefix(p, q) == Len(p) <= Len(q) /\ SubSeq(q, 1, Len(p)) = p

C11_Step ==
    last_pass'.op # "reset" =>
        /\ IsPrefix(answers, answers')
        /\ IsPrefix(chat_history, chat_history')
        /\ Len(answers) = 10 => answers' = answers

C11_AppendOnly == [][C11_Step]_vars

\* With ten answers collected and the report posted, the user submitted a
\* text once more; the answers are still the ten.
C11_Witness ==
    /\ Len(answers) = 10
    /\ last_pass.before.num_answers = 10
    /\ last_pass.before.generated
    /\ last_pass.user_answer = Some(" a ")
    /\ answers[1] = "a" /\ answers[2] = "b"

(***************************************************************************)
(* C12.  When llm.invoke returns, the transcript gains exactly one entry:  *)
(* a bot entry whose content is the heading "### Final Evaluation          *)
(* Report:\n" followed by the returned text, unmodified.  The answers are  *)
(* unchanged.                                                              *)
(***************************************************************************)
C12_CallReturned ==
    /\ invoking > 0
    /\ last_pass'.op = "report"
    /\ ~last_pass'.llm.raised

C12_ReportPosted ==
    [][C12_CallReturned =>
          /\ chat_history' =
                 Append(chat_history,
                        [role |-> "bot",
                         content |-> "### Final Evaluation Report:\n"
                                     \o last_pass'.llm.text])
          /\ answers' = answers]_vars

(***************************************************************************)
(* C13.  ask_question_logic is idempotent for a given answer count: called *)
(* a second time in a row it leaves the transcript as the first call left  *)
(* it.  Every call leaves the answers unchanged, and with ten or more      *)
(* answers it appends nothing.                                             *)
(***************************************************************************)
C13_AskTwice ==
    ask_question_logic(answers, ask_question_logic(answers, chat_history))
        = ask_question_logic(answers, chat_history)

C13_AskStep ==
    last_pass'.op = "ask" =>
        /\ answers' = answers
        /\ Len(answers) >= 10 => chat_history' = chat_history
        /\ last_pass.op = "ask" => chat_history' = chat_history

C13_Idempotent == []C13_AskTwice /\ [][C13_AskStep]_vars

\* ask_question_logic has been called with one answer collected and the
\* second question already the last entry: the call appended nothing.
C13_Witness ==
    /\ last_pass.op = "ask"
    /\ Len(answers) = 1
    /\ last_pass.before.num_entries = Len(chat_history)
    /\ chat_history # <<>>
    /\ chat_history[Len(chat_history)].content = "**Q2:** " \o questions[2]

(***************************************************************************)
(* C15.  generate_report_logic called with no answers appends exactly one  *)
(* bot entry "No answers collected. Cannot generate report.", does not     *)
(* call llm.invoke, and leaves the answers and the flags as they were.     *)
(***************************************************************************)
C15_Step ==
    last_pass'.op = "generate" /\ answers = <<>> =>
        /\ chat_history' =
               Append(chat_history,
                      [role |-> "bot",
                       content |-> "No answers collected. Cannot generate report."])
        /\ llm_log' = llm_log
        /\ answers' = answers
        /\ interview_started' = interview_started
        /\ interview_complete' = interview_complete
        /\ report_generated' = report_generated

C15_NoAnswersNoReport == [][C15_Step]_vars

\* generate_report_logic has been called on a session without answers:
\* the transcript ends with the message and nothing was sent to the model.
C15_Witness ==
    /\ last_pass.op = "generate"
    /\ answers = <<>>
    /\ llm_log = <<>>
    /\ Len(chat_history) = last_pass.before.num_entries + 1
    /\ chat_history[Len(chat_history)].content = NoAnswersText

(***************************************************************************)
(* C14.  Every prompt the flow sends to llm.invoke is built from exactly    *)
(* ten answers and pairs question i with answer i, i = 1..10, in that      *)
(* order: after the instruction text come the blocks                       *)
(* "Q1: <question 1>\nA1: <answer 1>" ... "Q10: ...\nA10: ...", one per    *)
(* line pair, none missing and none shifted.                               *)
(***************************************************************************)
C14_Pair(n, i, ans) ==
    "Q" \o n \o ": " \o questions[i] \o "\nA" \o n \o ": " \o ans[i]

C14_TenPairs(ans) ==
    C14_Pair("1", 1, ans) \o "\n" \o C14_Pair("2", 2, ans) \o "\n" \o
    C14_Pair("3", 3, ans) \o "\n" \o C14_Pair("4", 4, ans) \o "\n" \o
    C14_Pair("5", 5, ans) \o "\n" \o C14_Pair("6", 6, ans) \o "\n" \o
    C14_Pair("7", 7, ans) \o "\n" \o C14_Pair("8", 8, ans) \o "\n" \o
    C14_Pair("9", 9, ans) \o "\n" \o C14_Pair("10", 10, ans)

C14_Step ==
    llm_log' # llm_log /\ llm_log' # <<>> =>
        /\ Len(answers) = 10
        /\ llm_log' = Append(llm_log, PromptTemplate(C14_TenPairs(answers)))

C14_PromptPairsAll == [][C14_Step]_vars

\* The report pass has just sent a prompt built from ten answers that are
\* not all the same, and waits in the call.
C14_Witness ==
    /\ last_pass.op = "invoke"
    /\ invoking = 1
    /\ Len(llm_log) = 1
    /\ Len(answers) = 10
    /\ answers[1] = "a" /\ answers[2] = "b" /\ answers[10] = "b"

(***************************************************************************)
(* C17.  While the session waits for user input (no pass running or        *)
(* scheduled, the chat_input on the page) with k < 10 answers collected,   *)
(* the transcript is exactly Q1, A1, ..., Qk, Ak, Q(k+1): 2k+1 entries,    *)
(* bot and user entries alternating, the user entries equal to the answers *)
(* in order (which carry no surrounding whitespace), the last entry the    *)
(* pending question.  In Done it is the twenty entries Q1, A1, ..., Q10,   *)
(* A10 followed by exactly one report-or-error entry.                      *)
(***************************************************************************)
C17_IsTrimmed(text) ==
    /\ text # ""
    /\ ~IsSpace(Char(text, 1))
    /\ ~IsSpace(Char(text, Len(text)))

C17_QuestionAt(i, n) ==
    chat_history[i] =
        [role |-> "bot", content |-> "**Q" \o IntToStr(n) \o ":** " \o questions[n]]

C17_AnswerAt(i, n) ==
    /\ chat_history[i] = [role |-> "user", content |-> answers[n]]
    /\ C17_IsTrimmed(answers[n])

C17_Pairs(k) ==
    /\ Len(chat_history) >= 2 * k
    /\ \A n \in 1..k : C17_QuestionAt(2 * n - 1, n) /\ C17_AnswerAt(2 * n, n)

C17_WaitsForInput ==
    /\ ~rerun_pending /\ invoking = 0
    /\ input_shown
    /\ interview_started
    /\ Len(answers) < 10

C17_TranscriptShape ==
    /\ C17_WaitsForInput =>
          LET k == Len(answers)
          IN  /\ Len(chat_history) = 2 * k + 1
              /\ C17_Pairs(k)
              /\ C17_QuestionAt(2 * k + 1, k + 1)
    /\ MachineState[1] = "Done" =>
          /\ Len(chat_history) = 21
          /\ C17_Pairs(10)
          /\ IsReportOrErrorEntry(chat_history[21])

(***************************************************************************)
(* C18.  The flags agree with the answer count: interview_complete implies *)
(* report_generated; report_generated implies ten answers and              *)
(* interview_started; the transcript holds a report or error entry only if *)
(* report_generated is true.  The flow calls generate_report_logic with    *)
(* ten answers only, so the "No answers collected" entry never appears.    *)
(***************************************************************************)
C18_HasNoAnswersEntry ==
    \E i \in 1..Len(chat_history) :
        chat_history[i].content = "No answers collected. Cannot generate report."

C18_FlagsConsistent ==
    /\ interview_complete => report_generated
    /\ report_generated => Len(answers) = 10 /\ interview_started
    /\ ReportEntries(chat_history) # <<>> => report_generated
    /\ ~C18_HasNoAnswersEntry

(***************************************************************************)
(* C16.  Session state is private to its session: with two sessions whose  *)
(* passes (submissions, report generation, reset) interleave in any order, *)
(* every pass leaves the answers, transcript and flags of the session it   *)
(* does not run in unchanged (and with them all that is kept for it).      *)
(***************************************************************************)
C16_Step ==
    /\ last_pass' # last_pass => peer' = peer
    /\ peer.last_pass' # peer.last_pass => Session' = Session
    /\ Session' = Session \/ peer.session' = peer.session

C16_SessionsIsolated == [][C16_Step]_vars

\* Both sessions have collected answers, each its own texts; the second
\* waits in llm.invoke for its report and the first has just collected an
\* answer in the meantime.
C16_Witness ==
    /\ answers = <<"a">>
    /\ last_pass.op = "answer"
    /\ peer.session.answers = <<"b", "b", "b", "b", "b", "b", "b", "b", "b", "b">>
    /\ peer.session.report_generated
    /\ peer.invoking = 1
    /\ ~peer.session.interview_complete
    /\ ~report_generated
    /\ ObjectsIn(Own) \cap ObjectsIn(peer) = {}

====
